---- MODULE Spec2Model ----
(***************************************************************************)
(* Model of the Retell custom-LLM backend (src/src/server.ts).             *)
(*                                                                         *)
(* One websocket connection /llm-websocket/:call_id is modelled together   *)
(* with the process-wide prompt strings.  The async "message" callback of  *)
(* server.ts:146-178 is split where the code suspends: the synchronous     *)
(* part up to `await db.collection('transcripts').add(...)` is one step    *)
(* (OnMessage), the continuation after the promise settles is another      *)
(* (AddResolved / AddRejected).  The generator client                      *)
(* (./llms/llm_openai_func_call) is not part of the sources; its two       *)
(* methods DraftResponse and BeginMessage follow spec.md 4.3/4.4.          *)
(***************************************************************************)
EXTENDS Integers, Sequences, FiniteSets, TLC

\* ---------------------------------------------------------------- bounds
MaxFrames == 2      \* inbound frames delivered to one connection
MaxFrags  == 1      \* non-final fragments one generation may stream
MaxSets   == 2      \* POST /set-prompts requests served
MaxWebhooks == 3    \* POST /webhook requests served
MaxCallFrames == 2  \* inbound frames over all concurrent connections

\* ------------------------------------------------------------- constants
CloseUnsupportedData == 1007   \* ws.close(1007, ...) on a binary frame
CloseInternalError   == 1011   \* ws.close(1011, ...) in the outer catch

CallId == "call_1"             \* req.params.call_id of the connection

\* The prompt strings.  "" is the empty (falsy) string, NoField an absent
\* body field (undefined).
DefaultBeginSentence == "Hey there"
DefaultAgentPrompt   == "Task: therapist"
NoField              == "undefined"
PromptInputs         == {NoField, "", "Hi", "Yo"}

\* The conversation of the call; every event carries the transcript so
\* far, a prefix of it that grows with the turns.
Utterance(role, content) == [role |-> role, content |-> content]
Conversation ==
    << Utterance("user", "I feel anxious"),
       Utterance("agent", "Tell me more"),
       Utterance("user", "actually never mind") >>

VARIABLES
    beginSentence,  \* server.ts:23
    agentPrompt,    \* server.ts:24
    readyState,     \* ws.readyState; "NONE" before the route handler ran
    closeCode,      \* the codes this server gave to ws.close ({} if none)
    outbound,       \* messages written to the socket, in order
    handlers,       \* one entry per invocation of the "message" callback
    dblog,          \* documents stored in the 'transcripts' collection
    gens,           \* generator: one handle per DraftResponse call
    beginCalls,     \* frames for which BeginMessage was called
    setLog,         \* bodies of the /set-prompts requests served, in order
    promptReply,    \* response of the last /get-prompts request, if any
    webhooks,       \* one entry per /webhook request served
    conns,          \* concurrent connections: call id -> socket and callbacks
    clients,        \* generator clients: owner's call id -> client state
    actor           \* the connection whose callback or generation ran last

vars == << beginSentence, agentPrompt, readyState, closeCode,
           outbound, handlers, dblog, gens, beginCalls,
           setLog, promptReply, webhooks, conns, clients, actor >>

\* What the HTTP endpoints leave behind; the websocket route touches none
\* of it.
httpVars == << setLog, promptReply, webhooks >>

\* The concurrent connections of the last section.
callVars == << conns, clients, actor >>

Calls == {"call_1", "call_2"}

\* ------------------------------------------------------- inbound frames
\* `data` is the frame's payload: text that JSON.parse rejects, or the
\* JSON text of a request.
JunkData == [json |-> FALSE]
JsonData(request) == [json |-> TRUE, value |-> request]

\* The platform tags each response_required / reminder_required event
\* with a fresh, larger response id.
IsTurn(h) ==
    /\ h.data.json
    /\ h.data.value.interaction_type \in {"response_required", "reminder_required"}

NextResponseId ==
    1 + Cardinality({ i \in 1..Len(handlers) : IsTurn(handlers[i]) })

\* The platform's clock: every frame is sent at a later time.
Timestamp == 100 * (Len(handlers) + 1)

Min(a, b) == IF a < b THEN a ELSE b
TranscriptSoFar == SubSeq(Conversation, 1, Min(NextResponseId + 1, Len(Conversation)))

Requests ==
    {[interaction_type |-> "call_details"]}
    \cup {[interaction_type |-> "ping_pong", timestamp |-> Timestamp]}
    \cup {[interaction_type |-> "update_only", transcript |-> TranscriptSoFar]}
    \cup {[interaction_type |-> k, response_id |-> NextResponseId,
            transcript |-> TranscriptSoFar] :
            k \in {"response_required", "reminder_required"}}

Payloads == {JunkData} \cup {JsonData(r) : r \in Requests}

\* JSON.parse(data.toString()): throws on text that is not JSON.
JsonParse(data) ==
    IF data.json THEN [threw |-> FALSE, value |-> data.value]
                 ELSE [threw |-> TRUE]

\* Type guards, server.ts:269-279
isResponseRequiredRequest(request) == request.interaction_type = "response_required"
isReminderRequiredRequest(request) == request.interaction_type = "reminder_required"
isCallDetailsRequest(request) == request.interaction_type = "call_details"

\* ------------------------------------------------------------ websocket
\* ws.send: the message reaches the peer only while the socket is OPEN;
\* on a CLOSING or CLOSED socket nothing is written (depending on the ws
\* version the call is dropped or throws inside the callback, and in both
\* cases no other state changes).
WsSend(rs, out, msg) == IF rs = "OPEN" THEN Append(out, msg) ELSE out

\* ws.close(code): starts the closing handshake of an OPEN socket and is
\* a no-op otherwise.
WsCloseState(rs) == IF rs = "OPEN" THEN "CLOSING" ELSE rs
WsCloseCode(rs, cur, code) == IF rs = "OPEN" THEN cur \cup {code} ELSE cur

ConfigMessage ==
    [response_type |-> "config", auto_reconnect |-> TRUE, call_details |-> TRUE]

PingPongResponse(request) ==
    [response_type |-> "ping_pong", timestamp |-> request.timestamp]

\* A map that returns the contents newest first.
MapContent_Reversed(transcript) ==
    [i \in 1..Len(transcript) |-> transcript[Len(transcript) + 1 - i].content]

\* A map that loses the newest utterance.
MapContent_DropsLast(transcript) ==
    [i \in 1..(Len(transcript) - 1) |-> transcript[i].content]

\* transcriptData, server.ts:155-159 (the server timestamp sentinel is
\* left out).
MapContent(transcript) == [i \in 1..Len(transcript) |-> transcript[i].content]
TranscriptData(request) ==
    [callId |-> CallId, transcript |-> MapContent(request.transcript)]

\* ------------------------------------------------------------ generator
\* The greeting the generator client sends.  The client is constructed
\* without arguments (server.ts:137) and BeginMessage receives only the
\* socket (server.ts:168); beginSentence of server.ts is a module-private
\* variable, so the client's greeting is a string of its own.
ClientBeginSentence == DefaultBeginSentence

BeginFragment ==
    [response_type |-> "response", response_id |-> 0,
     content |-> ClientBeginSentence, content_complete |-> TRUE]

\* llmClient.BeginMessage(ws): one final fragment holding the greeting.
BeginMessage(rs, out) == WsSend(rs, out, BeginFragment)

ResponseType(request) ==
    IF isReminderRequiredRequest(request) THEN "reminder" ELSE "response"

NewHandle(request, n) ==
    [event |-> n, response_id |-> request.response_id,
     response_type |-> ResponseType(request), sent |-> 0, status |-> "active"]

\* Supersession: an active handle of a smaller response id is cancelled.
Supersede(g, request) ==
    IF g.status = "active" /\ g.response_id < request.response_id
    THEN [g EXCEPT !.status = "cancelled"] ELSE g

\* llmClient.DraftResponse(request, ws): cancel what the request
\* supersedes and start a handle for it; fragments follow asynchronously.
DraftResponse(gs, request, n) ==
    Append([i \in 1..Len(gs) |-> Supersede(gs[i], request)], NewHandle(request, n))

Fragment(g, content, final) ==
    [response_type |-> g.response_type, response_id |-> g.response_id,
     content |-> content, content_complete |-> final]

ActiveGens == { i \in 1..Len(gens) : gens[i].status = "active" }

\* ----------------------------------------------------------------- Init
Init ==
    /\ beginSentence = DefaultBeginSentence
    /\ agentPrompt = DefaultAgentPrompt
    /\ readyState = "NONE"
    /\ closeCode = {}
    /\ outbound = << >>
    /\ handlers = << >>
    /\ dblog = << >>
    /\ gens = << >>
    /\ beginCalls = {}
    /\ setLog = << >>
    /\ promptReply = << >>
    /\ webhooks = << >>
    /\ conns = [c \in Calls |->
                  [readyState |-> "NONE", outbound |-> << >>, handlers |-> << >>]]
    /\ clients = [c \in Calls |-> [gens |-> << >>, ws |-> << >>, begins |-> {}]]
    /\ actor = "none"

\* -------------------------------------------------------------- actions
\* A test that lets the empty string through.
Truthy_AcceptsEmpty(v) == v # NoField

\* POST /set-prompts, server.ts:187-192: a falsy field leaves the string.
Truthy(v) == v # NoField /\ v # ""

SetPrompts(newBeginSentence, newAgentPrompt) ==
    /\ beginSentence' = IF Truthy(newBeginSentence) THEN newBeginSentence ELSE beginSentence
    /\ agentPrompt' = IF Truthy(newAgentPrompt) THEN newAgentPrompt ELSE agentPrompt
    /\ UNCHANGED << readyState, closeCode, outbound, handlers, dblog, gens, beginCalls >>

\* A route handler that registers the callbacks and sends no config.
Connect_NoConfig ==
    /\ readyState = "NONE"
    /\ readyState' = "OPEN"
    /\ UNCHANGED << beginSentence, agentPrompt, closeCode, outbound, handlers,
                    dblog, gens, beginCalls >>

\* The route handler of /llm-websocket/:call_id, server.ts:121-145: the
\* config message is sent, the client constructed, the callbacks
\* registered.
Connect ==
    /\ readyState = "NONE"
    /\ readyState' = "OPEN"
    /\ outbound' = WsSend("OPEN", outbound, ConfigMessage)
    /\ UNCHANGED << beginSentence, agentPrompt, closeCode, handlers,
                    dblog, gens, beginCalls >>

Handler(isBinary, data, pc) ==
    [isBinary |-> isBinary, data |-> data, pc |-> pc, arrivedIn |-> readyState]

\* server.ts:154-161: the add is issued and the callback suspends on it.
TurnBranch(isBinary, data, rs) ==
    /\ handlers' = Append(handlers, Handler(isBinary, data, "await_add"))
    /\ UNCHANGED << outbound, gens, beginCalls >>

\* server.ts:164-168
CallDetailsBranch(isBinary, data, rs) ==
    /\ handlers' = Append(handlers, Handler(isBinary, data, "done"))
    /\ outbound' = BeginMessage(rs, outbound)
    /\ beginCalls' = beginCalls \cup {Len(handlers) + 1}
    /\ UNCHANGED gens

\* A ping branch that answers only when no callback is suspended on its
\* add.
PingPongBranch_WaitsForAdd(isBinary, data, rs) ==
    /\ handlers' = Append(handlers, Handler(isBinary, data, "done"))
    /\ outbound' = IF \E n \in 1..Len(handlers) : handlers[n].pc = "await_add"
                   THEN outbound
                   ELSE WsSend(rs, outbound, PingPongResponse(data.value))
    /\ UNCHANGED << gens, beginCalls >>

\* server.ts:169-174
PingPongBranch(isBinary, data, rs) ==
    /\ handlers' = Append(handlers, Handler(isBinary, data, "done"))
    /\ outbound' = WsSend(rs, outbound, PingPongResponse(data.value))
    /\ UNCHANGED << gens, beginCalls >>

\* An update_only branch that acknowledges the update on the socket.
UpdateOnlyBranch_Acks(isBinary, data, rs) ==
    /\ handlers' = Append(handlers, Handler(isBinary, data, "done"))
    /\ outbound' = WsSend(rs, outbound, [response_type |-> "update_only"])
    /\ UNCHANGED << gens, beginCalls >>

\* server.ts:175-177: an empty branch.
UpdateOnlyBranch(isBinary, data, rs) ==
    /\ handlers' = Append(handlers, Handler(isBinary, data, "done"))
    /\ UNCHANGED << outbound, gens, beginCalls >>

\* No branch of server.ts:154-177 matches the interaction_type.
NoBranch(isBinary, data, rs) ==
    /\ handlers' = Append(handlers, Handler(isBinary, data, "done"))
    /\ UNCHANGED << outbound, gens, beginCalls >>

\* JSON.parse threw: the promise of the async callback rejects, nothing
\* observes it (the try/catch of server.ts:122-182 has returned long ago).
ParseThrew(isBinary, data, rs) ==
    /\ handlers' = Append(handlers, Handler(isBinary, data, "threw"))
    /\ UNCHANGED << outbound, gens, beginCalls >>

\* The synchronous part of the "message" callback, server.ts:146-178.
\* A binary frame calls ws.close(1007) and control falls through to
\* JSON.parse: there is no return after the close.
OnMessage(isBinary, data) ==
    /\ readyState \in {"OPEN", "CLOSING"}
    /\ Len(handlers) < MaxFrames
    /\ LET rs == IF isBinary THEN WsCloseState(readyState) ELSE readyState
           parsed == JsonParse(data)
       IN /\ readyState' = rs
          /\ closeCode' = IF isBinary
                          THEN WsCloseCode(readyState, closeCode, CloseUnsupportedData)
                          ELSE closeCode
          /\ IF parsed.threw
             THEN ParseThrew(isBinary, data, rs)
             ELSE IF isResponseRequiredRequest(parsed.value)
                     \/ isReminderRequiredRequest(parsed.value)
             THEN TurnBranch(isBinary, data, rs)
             ELSE IF isCallDetailsRequest(parsed.value)
             THEN CallDetailsBranch(isBinary, data, rs)
             ELSE IF parsed.value.interaction_type = "ping_pong"
             THEN PingPongBranch(isBinary, data, rs)
             ELSE IF parsed.value.interaction_type = "update_only"
             THEN UpdateOnlyBranch(isBinary, data, rs)
             ELSE NoBranch(isBinary, data, rs)
    /\ UNCHANGED << beginSentence, agentPrompt, dblog >>

\* The add promise resolves: the callback resumes at server.ts:163.
AddResolved(n) ==
    /\ handlers[n].pc = "await_add"
    /\ handlers' = [handlers EXCEPT ![n].pc = "done"]
    /\ dblog' = Append(dblog, TranscriptData(handlers[n].data.value))
    /\ gens' = DraftResponse(gens, handlers[n].data.value, n)
    /\ UNCHANGED << beginSentence, agentPrompt, readyState, closeCode,
                    outbound, beginCalls >>

\* The add promise rejects: the await throws and the callback ends.
AddRejected(n) ==
    /\ handlers[n].pc = "await_add"
    /\ handlers' = [handlers EXCEPT ![n].pc = "threw"]
    /\ UNCHANGED << beginSentence, agentPrompt, readyState, closeCode,
                    outbound, dblog, gens, beginCalls >>

\* An active generation streams one more fragment.
GenEmit(i) ==
    /\ gens[i].status = "active"
    /\ gens[i].sent < MaxFrags
    /\ outbound' = WsSend(readyState, outbound, Fragment(gens[i], "text", FALSE))
    /\ gens' = [gens EXCEPT ![i].sent = @ + 1]
    /\ UNCHANGED << beginSentence, agentPrompt, readyState, closeCode,
                    handlers, dblog, beginCalls >>

\* An active generation ends its turn with the final fragment.
GenFinish(i) ==
    /\ gens[i].status = "active"
    /\ outbound' = WsSend(readyState, outbound, Fragment(gens[i], "text", TRUE))
    /\ gens' = [gens EXCEPT ![i].status = "finished"]
    /\ UNCHANGED << beginSentence, agentPrompt, readyState, closeCode,
                    handlers, dblog, beginCalls >>

\* The peer closes the socket, or completes the handshake ws.close began.
\* The "close" callback of server.ts:142-144 only logs.
OnClose ==
    /\ readyState \in {"OPEN", "CLOSING"}
    /\ readyState' = "CLOSED"
    /\ UNCHANGED << beginSentence, agentPrompt, closeCode, outbound,
                    handlers, dblog, gens, beginCalls >>

\* The websocket session: everything the route of server.ts:119-184 and
\* the generator client do.  None of these steps reads or writes the
\* prompt strings.
SessionNext ==
    /\ \/ Connect
       \/ \E isBinary \in BOOLEAN, data \in Payloads : OnMessage(isBinary, data)
       \/ \E n \in 1..Len(handlers) : AddResolved(n)
       \/ \E n \in 1..Len(handlers) : AddRejected(n)
       \/ \E i \in 1..Len(gens) : GenEmit(i)
       \/ \E i \in 1..Len(gens) : GenFinish(i)
       \/ OnClose
    /\ UNCHANGED << httpVars, callVars >>

\* The prompt endpoints of server.ts:186-197.
PromptNext ==
    /\ \E b \in PromptInputs, a \in PromptInputs : SetPrompts(b, a)
    /\ UNCHANGED << httpVars, callVars >>

Next == SessionNext \/ PromptNext

\* The websocket session together with POST /set-prompts.
Spec == Init /\ [][Next]_vars

\* The websocket session alone, the prompt strings at their defaults.
SessionSpec == Init /\ [][SessionNext]_vars

\* ------------------------------------------------------ prompt endpoints
\* POST /set-prompts with the request kept in setLog.
PostSetPrompts(newBeginSentence, newAgentPrompt) ==
    /\ Len(setLog) < MaxSets
    /\ setLog' = Append(setLog, [newBeginSentence |-> newBeginSentence,
                                 newAgentPrompt |-> newAgentPrompt])
    /\ SetPrompts(newBeginSentence, newAgentPrompt)
    /\ UNCHANGED << promptReply, webhooks, callVars >>

\* GET /get-prompts, server.ts:194-196.  `after` is the number of
\* /set-prompts requests served before it.
GetPrompts ==
    /\ promptReply' = << [after |-> Len(setLog),
                          body |-> [beginSentence |-> beginSentence,
                                    agentPrompt |-> agentPrompt]] >>
    /\ UNCHANGED << beginSentence, agentPrompt, readyState, closeCode, outbound,
                    handlers, dblog, gens, beginCalls, setLog, webhooks, callVars >>

PromptApiNext ==
    \/ \E b \in PromptInputs, a \in PromptInputs : PostSetPrompts(b, a)
    \/ GetPrompts

\* The two prompt endpoints alone.
PromptSpec == Init /\ [][PromptApiNext]_vars

\* -------------------------------------------------------------- webhook
WebhookEvents == {"call_started", "call_ended", "call_analyzed", "call_other"}

\* The body of a webhook request as the platform sends it.
WebhookBody(event) == [event |-> event, data |-> [call_id |-> CallId]]

\* A handler whose default case returns before the acknowledgement.
WebhookOutcome_UnknownNotAcked(verified, content) ==
    IF ~verified
    THEN [console |-> << "Invalid signature" >>, responses |-> << >>]
    ELSE IF content.event \in {"call_started", "call_ended", "call_analyzed"}
    THEN [console |-> << content.event, content.data.call_id >>,
          responses |-> << [received |-> TRUE] >>]
    ELSE [console |-> << "Received an unknown event:", content.event >>,
          responses |-> << >>]

\* The handler of POST /webhook, server.ts:60-87: what it logs and what
\* it writes to the response.
WebhookOutcome(verified, content) ==
    IF ~verified
    THEN [console |-> << "Invalid signature" >>, responses |-> << >>]
    ELSE [console |->
            CASE content.event = "call_started" ->
                    << "Call started event received", content.data.call_id >>
              [] content.event = "call_ended" ->
                    << "Call ended event received", content.data.call_id >>
              [] content.event = "call_analyzed" ->
                    << "Call analyzed event received", content.data.call_id >>
              [] OTHER -> << "Received an unknown event:", content.event >>,
          responses |-> << [received |-> TRUE] >>]

\* `verified` is the result of Retell.verify on the request.
HandleWebhook(verified, content) ==
    /\ Len(webhooks) < MaxWebhooks
    /\ webhooks' = Append(webhooks,
                          [verified |-> verified, content |-> content,
                           outcome |-> WebhookOutcome(verified, content)])
    /\ UNCHANGED << beginSentence, agentPrompt, readyState, closeCode, outbound,
                    handlers, dblog, gens, beginCalls, setLog, promptReply,
                    callVars >>

WebhookNext ==
    \E verified \in BOOLEAN, event \in WebhookEvents :
        HandleWebhook(verified, WebhookBody(event))

\* The webhook endpoint alone.
WebhookSpec == Init /\ [][WebhookNext]_vars

\* ------------------------------------------------------------ vocabulary
Frames == 1..Len(handlers)

IsText(h, kind) ==
    /\ ~h.isBinary
    /\ h.data.json
    /\ h.data.value.interaction_type = kind

IsKind(h, kind) == h.data.json /\ h.data.value.interaction_type = kind

\* A step in which the "message" callback ran for a new frame, and that
\* frame.
Arrived == Len(handlers') = Len(handlers) + 1
Last == handlers'[Len(handlers')]

\* The messages a step wrote to the socket.
Sent == SubSeq(outbound', Len(outbound) + 1, Len(outbound'))

IsFragment(m) == m.response_type \in {"response", "reminder"}

\* The highest response id among the events observed so far.
MaxSeen ==
    Cardinality({ n \in Frames : IsTurn(handlers[n]) })

Invoked(n) == \E i \in 1..Len(gens) : gens[i].event = n

\* ---------------------------------------------------------------- claims
\* C1: once the event for a newer response id has been observed, no
\* fragment tagged with an older response id is written to the socket.
C1_NoStaleFragment ==
    [][\A k \in 1..Len(Sent) :
          (IsFragment(Sent[k]) /\ Sent[k].response_id > 0)
              => Sent[k].response_id >= MaxSeen]_vars

\* C2: at most one generation is active in any reachable state.
C2_AtMostOneActive == Cardinality(ActiveGens) <= 1

\* C3: the generator is invoked for every response_required or
\* reminder_required event, whether its log append has succeeded, has
\* failed or is still outstanding.
C3_GeneratorInvokedForEveryTurn ==
    \A n \in Frames : IsTurn(handlers[n]) => Invoked(n)

\* C4: a binary frame closes the connection and leads to no generator
\* invocation, neither DraftResponse nor BeginMessage, whatever it decodes
\* to.
C4_BinaryNeverInvokesGenerator ==
    \A n \in Frames :
        handlers[n].isBinary =>
            /\ readyState \in {"CLOSING", "CLOSED"}
            /\ n \notin beginCalls
            /\ ~Invoked(n)

\* C5: a text frame that is not JSON, arriving on an open connection,
\* closes the connection with the protocol-error code and leaves the
\* transcript log and the generator as they were.
C5_MalformedJsonCloses ==
    [][(Arrived /\ ~Last.isBinary /\ ~Last.data.json /\ Last.arrivedIn = "OPEN")
          => /\ readyState' \in {"CLOSING", "CLOSED"}
             /\ CloseInternalError \in closeCode'
             /\ dblog' = dblog
             /\ gens' = gens
             /\ beginCalls' = beginCalls]_vars

\* C6: every text ping_pong frame that arrives on an open connection has
\* exactly one ping_pong reply with its timestamp on the socket, from the
\* step it arrived in, whatever appends are outstanding and whatever
\* generations are active; and no other ping_pong reply is ever sent.
PongsFor(t) ==
    { k \in 1..Len(outbound) :
        outbound[k].response_type = "ping_pong" /\ outbound[k].timestamp = t }

OpenPing(n) == IsText(handlers[n], "ping_pong") /\ handlers[n].arrivedIn = "OPEN"

C6_PingPongEchoedOnce ==
    /\ \A n \in Frames :
          OpenPing(n) => Cardinality(PongsFor(handlers[n].data.value.timestamp)) = 1
    /\ \A k \in 1..Len(outbound) :
          outbound[k].response_type = "ping_pong" =>
              \E n \in Frames :
                  /\ OpenPing(n)
                  /\ handlers[n].data.value.timestamp = outbound[k].timestamp

\* A ping was answered while an earlier event's append was outstanding.
C6_Witness ==
    \E n \in Frames :
        /\ OpenPing(n)
        /\ PongsFor(handlers[n].data.value.timestamp) # {}
        /\ \E m \in 1..(n - 1) : handlers[m].pc = "await_add"

\* C7: the step that handles an update_only frame writes nothing to the
\* socket, invokes neither method of the generator and does not suspend
\* (so that nothing is started for it later either).
C7_UpdateOnlyIsSilent ==
    [][(Arrived /\ IsKind(Last, "update_only"))
          => /\ outbound' = outbound
             /\ gens' = gens
             /\ beginCalls' = beginCalls
             /\ Last.pc = "done"]_vars

\* An update_only frame was handled on an open connection while a
\* generation was active.
C7_Witness ==
    \E n \in Frames :
        /\ IsText(handlers[n], "update_only")
        /\ handlers[n].arrivedIn = "OPEN"
        /\ ActiveGens # {}

\* C8 as stated: every utterance of a response_required,
\* reminder_required or update_only event whose callback has ended is in
\* the transcript log.
Utterances(n) == handlers[n].data.value.transcript

Logged(n, i) ==
    \E k \in 1..Len(dblog) :
        /\ dblog[k].callId = CallId
        /\ Len(dblog[k].transcript) = Len(Utterances(n))
        /\ dblog[k].transcript[i] = Utterances(n)[i].content

TurnsDone == { n \in Frames : IsTurn(handlers[n]) /\ handlers[n].pc = "done" }

C9_ConfigFirstAndOnce ==
    /\ readyState # "NONE" => Len(outbound) >= 1
    /\ Len(outbound) >= 1 =>
          outbound[1] = [response_type |-> "config",
                         auto_reconnect |-> TRUE, call_details |-> TRUE]
    /\ \A k \in 2..Len(outbound) : outbound[k].response_type # "config"

\* A ping_pong reply and a fragment follow the config message.
C9_Witness ==
    /\ \E k \in 2..Len(outbound) : outbound[k].response_type = "ping_pong"
    /\ \E k \in 2..Len(outbound) : IsFragment(outbound[k])

\* C10: a call_details text frame that is the first message of an open
\* connection puts exactly one fragment on the socket, final and holding
\* the greeting configured at that time (beginSentence), with no
\* DraftResponse call and no log append.
C10_GreetingIsConfigured ==
    [][(Arrived /\ Len(handlers) = 0 /\ IsText(Last, "call_details")
            /\ Last.arrivedIn = "OPEN")
          => /\ Len(Sent) = 1
             /\ IsFragment(Sent[1])
             /\ Sent[1].content = beginSentence
             /\ Sent[1].content_complete
             /\ gens' = gens
             /\ dblog' = dblog
             /\ Last.pc = "done"]_vars

\* C11: the step in which the connection becomes CLOSED leaves no
\* generation of the call active.
C11_CloseCancelsGeneration ==
    [][(readyState # "CLOSED" /\ readyState' = "CLOSED") => ActiveGens' = {}]_vars

\* C12: no turn is left unterminated.  Once the callback of a
\* response_required or reminder_required event has ended and no
\* generation is running for the event, its generation has sent the final
\* fragment or has been cancelled.
GensOf(n) == { i \in 1..Len(gens) : gens[i].event = n }

Terminated(n) ==
    \E i \in GensOf(n) : gens[i].status \in {"finished", "cancelled"}

C12_EveryTurnTerminated ==
    \A n \in Frames :
        (IsTurn(handlers[n])
            /\ handlers[n].pc # "await_add"
            /\ GensOf(n) \cap ActiveGens = {})
        => Terminated(n)

\* C15: once the connection has been closed, by ws.close or by the peer,
\* no step invokes the generator and no step writes to the socket.
Closed == readyState \in {"CLOSING", "CLOSED"}

C15_ClosedIsTerminal ==
    [][Closed => /\ Len(gens') = Len(gens)
                 /\ beginCalls' = beginCalls
                 /\ outbound' = outbound
                 /\ Closed']_vars

\* C16: DraftResponse is called for the events in the order they arrived,
\* so the response ids it is given never decrease.
C16_DraftResponseInArrivalOrder ==
    \A i \in 1..Len(gens) : \A j \in (i + 1)..Len(gens) :
        /\ gens[i].event < gens[j].event
        /\ gens[i].response_id <= gens[j].response_id

\* C17: the transcript log holds exactly one document for every
\* response_required or reminder_required event whose add has resolved,
\* made of the call id of the connection and the contents of the event's
\* utterances in their order (two events of the same transcript have two
\* equal documents); no other frame has an add outstanding or a document
\* in the log.
ExpectedDocument(n) ==
    [callId |-> CallId,
     transcript |-> [i \in 1..Len(Utterances(n)) |-> Utterances(n)[i].content]]

C17_OneDocumentPerTurn ==
    /\ \A n \in TurnsDone :
          Cardinality({ k \in 1..Len(dblog) : dblog[k] = ExpectedDocument(n) })
              = Cardinality({ m \in TurnsDone : ExpectedDocument(m) = ExpectedDocument(n) })
    /\ \A k \in 1..Len(dblog) : \E n \in TurnsDone : dblog[k] = ExpectedDocument(n)
    /\ \A n \in Frames : ~IsTurn(handlers[n]) => handlers[n].pc # "await_add"

\* The documents of two turns are in the log, stored in the reverse of
\* the order the events arrived in.
C17_Witness ==
    /\ Len(dblog) = 2
    /\ \E n \in TurnsDone : \E m \in TurnsDone :
          n < m /\ dblog[1] = ExpectedDocument(m) /\ dblog[2] = ExpectedDocument(n)

\* C13: a webhook request whose signature does not verify is not handled
\* as an event and gets no acknowledgement; one whose signature verifies
\* gets exactly one {received: true}, whatever its event field holds.
EventLines ==
    {"Call started event received", "Call ended event received",
     "Call analyzed event received", "Received an unknown event:"}

RECURSIVE LastSupplied(_, _, _)
LastSupplied(log, field, default) ==
    IF log = << >>
    THEN default
    ELSE LET v == log[Len(log)][field]
         IN IF v # NoField /\ v # ""
            THEN v
            ELSE LastSupplied(SubSeq(log, 1, Len(log) - 1), field, default)

C14_GetPromptsReturnsLastSupplied ==
    /\ beginSentence = LastSupplied(setLog, "newBeginSentence", DefaultBeginSentence)
    /\ agentPrompt = LastSupplied(setLog, "newAgentPrompt", DefaultAgentPrompt)
    /\ \A r \in 1..Len(promptReply) :
          LET served == SubSeq(setLog, 1, promptReply[r].after)
          IN /\ promptReply[r].body.beginSentence
                  = LastSupplied(served, "newBeginSentence", DefaultBeginSentence)
             /\ promptReply[r].body.agentPrompt
                  = LastSupplied(served, "newAgentPrompt", DefaultAgentPrompt)

\* A greeting was set, then a request gave it empty and set the agent
\* prompt, and get-prompts answered with the greeting and the new prompt.
C14_Witness ==
    /\ Len(setLog) = 2
    /\ setLog[1].newBeginSentence = "Hi"
    /\ setLog[2].newBeginSentence = ""
    /\ setLog[2].newAgentPrompt = "Yo"
    /\ promptReply = << [after |-> 2,
                         body |-> [beginSentence |-> "Hi", agentPrompt |-> "Yo"]] >>

\* ----------------------------------------------- concurrent connections
\* The route handler runs once per connection: callId, ws and llmClient
\* are locals of that run (server.ts:123, 121, 137) and the callbacks
\* close over them; the 'transcripts' collection (dblog) is shared.

\* One client for the whole process.
ClientOf_Shared(c) == "call_1"

\* The client the callbacks of connection c use, server.ts:137.
ClientOf(c) == c

singleVars ==
    << beginSentence, agentPrompt, readyState, closeCode, outbound, handlers,
       gens, beginCalls >>

CallFrames(c) == 1..Len(conns[c].handlers)

CallIsTurn(c, n) == conns[c].handlers[n].turn

CallNextResponseId(c) ==
    1 + Cardinality({ n \in CallFrames(c) : CallIsTurn(c, n) })

CallTranscriptSoFar(c) ==
    SubSeq(Conversation, 1, Min(CallNextResponseId(c) + 1, Len(Conversation)))

TotalFrames == Len(conns["call_1"].handlers) + Len(conns["call_2"].handlers)

\* The frames the platform may send on connection c.  The turn branch of
\* server.ts:154 serves response_required and reminder_required alike;
\* response_required stands for both here.
CallRequests(c) ==
    {[interaction_type |-> "call_details"]}
    \cup {[interaction_type |-> "ping_pong", timestamp |-> 100 * (Len(conns[c].handlers) + 1)]}
    \cup {[interaction_type |-> "update_only", transcript |-> CallTranscriptSoFar(c)]}
    \cup {[interaction_type |-> "response_required",
            response_id |-> CallNextResponseId(c),
            transcript |-> CallTranscriptSoFar(c)]}

CallPayloads(c) == {JunkData} \cup {JsonData(r) : r \in CallRequests(c)}

\* server.ts:121-145 for connection c.
CallConnect(c) ==
    /\ conns[c].readyState = "NONE"
    /\ conns' = [conns EXCEPT ![c].readyState = "OPEN",
                              ![c].outbound = WsSend("OPEN", @, ConfigMessage)]
    /\ actor' = c
    /\ UNCHANGED << clients, dblog, singleVars, httpVars >>

\* The synchronous part of the "message" callback of connection c,
\* server.ts:146-178.
CallOnMessage(c, isBinary, data) ==
    /\ conns[c].readyState \in {"OPEN", "CLOSING"}
    /\ TotalFrames < MaxCallFrames
    /\ LET rs == IF isBinary THEN WsCloseState(conns[c].readyState)
                             ELSE conns[c].readyState
           parsed == JsonParse(data)
           turn == /\ ~parsed.threw
                   /\ \/ isResponseRequiredRequest(parsed.value)
                      \/ isReminderRequiredRequest(parsed.value)
           details == ~parsed.threw /\ ~turn /\ isCallDetailsRequest(parsed.value)
           ping == /\ ~parsed.threw /\ ~turn /\ ~details
                   /\ parsed.value.interaction_type = "ping_pong"
           pc == IF parsed.threw THEN "threw"
                 ELSE IF turn THEN "await_add" ELSE "done"
           n == Len(conns[c].handlers) + 1
       IN /\ conns' = [conns EXCEPT
                ![c].readyState = rs,
                ![c].handlers = Append(@, [pc |-> pc, turn |-> turn,
                                           request |-> IF turn THEN parsed.value
                                                       ELSE NoField]),
                ![c].outbound =
                    IF details THEN BeginMessage(rs, @)
                    ELSE IF ping THEN WsSend(rs, @, PingPongResponse(parsed.value))
                    ELSE @]
          /\ clients' = IF details
                        THEN [clients EXCEPT ![ClientOf(c)].begins = @ \cup {<< c, n >>}]
                        ELSE clients
    /\ actor' = c
    /\ UNCHANGED << dblog, singleVars, httpVars >>

\* The add of frame n of connection c resolves, server.ts:161-163.
CallAddResolved(c, n) ==
    /\ conns[c].handlers[n].pc = "await_add"
    /\ conns' = [conns EXCEPT ![c].handlers[n].pc = "done",
                              ![c].handlers[n].request = NoField]
    /\ dblog' = Append(dblog, [TranscriptData(conns[c].handlers[n].request)
                                 EXCEPT !.callId = c])
    /\ clients' = [clients EXCEPT
            ![ClientOf(c)].gens = DraftResponse(@, conns[c].handlers[n].request, n),
            ![ClientOf(c)].ws = Append(@, c)]
    /\ actor' = c
    /\ UNCHANGED << singleVars, httpVars >>

\* The add of frame n of connection c rejects.
CallAddRejected(c, n) ==
    /\ conns[c].handlers[n].pc = "await_add"
    /\ conns' = [conns EXCEPT ![c].handlers[n].pc = "threw",
                              ![c].handlers[n].request = NoField]
    /\ actor' = c
    /\ UNCHANGED << clients, dblog, singleVars, httpVars >>

\* Generation i of client x sends a fragment, final or not, on the socket
\* DraftResponse was given.
CallGenStep(x, i, final) ==
    /\ clients[x].gens[i].status = "active"
    /\ final \/ clients[x].gens[i].sent < MaxFrags
    /\ LET w == clients[x].ws[i]
       IN /\ conns' = [conns EXCEPT ![w].outbound =
                          WsSend(conns[w].readyState, @,
                                 Fragment(clients[x].gens[i], "text", final))]
          /\ actor' = w
    /\ clients' = IF final
                  THEN [clients EXCEPT ![x].gens[i].status = "finished"]
                  ELSE [clients EXCEPT ![x].gens[i].sent = @ + 1]
    /\ UNCHANGED << dblog, singleVars, httpVars >>

\* Connection c is closed.
CallOnClose(c) ==
    /\ conns[c].readyState \in {"OPEN", "CLOSING"}
    /\ conns' = [conns EXCEPT ![c].readyState = "CLOSED"]
    /\ actor' = c
    /\ UNCHANGED << clients, dblog, singleVars, httpVars >>

CallsNext ==
    \/ \E c \in Calls : CallConnect(c)
    \/ \E c \in Calls, isBinary \in BOOLEAN :
          \E data \in CallPayloads(c) : CallOnMessage(c, isBinary, data)
    \/ \E c \in Calls : \E n \in CallFrames(c) : CallAddResolved(c, n)
    \/ \E c \in Calls : \E n \in CallFrames(c) : CallAddRejected(c, n)
    \/ \E x \in Calls : \E i \in 1..Len(clients[x].gens), final \in BOOLEAN :
          CallGenStep(x, i, final)
    \/ \E c \in Calls : CallOnClose(c)

\* Two connections served concurrently.
CallsSpec == Init /\ [][CallsNext]_vars

\* C18: a step taken for one connection (its route handler, one of its
\* callbacks, a generation one of its messages started) changes the
\* socket, the callbacks and the generator client of no other connection.
C18_SessionsIsolated ==
    [][\A c \in Calls :
          c # actor' => conns'[c] = conns[c] /\ clients'[c] = clients[c]]_vars

\* Both connections have a generation of their own client under way and a
\* fragment of it on their own socket.
C18_Witness ==
    \A c \in Calls :
        /\ \E i \in 1..Len(clients[c].gens) :
              clients[c].gens[i].status = "active" /\ clients[c].ws[i] = c
        /\ \E k \in 1..Len(conns[c].outbound) : IsFragment(conns[c].outbound[k])

====
